---------------------------- MODULE Spec2Model ----------------------------
(* pympc/plot.py: the six plotting helpers, modelled by the sequence of    *)
(* calls each invocation issues against the plotting backend (pyplot) and  *)
(* against the objects it is handed.  pyplot's current axes and numpy's    *)
(* global random generator are the only state that outlives a call.        *)
EXTENDS Integers, Sequences, FiniteSets, TLC

VARIABLES inv, rng, cur, calls, outcome, checks, invocations, first

vars == <<inv, rng, cur, calls, outcome, checks, invocations, first>>

----------------------------------------------------------------------------
(* Bounds of the explored inputs.                                          *)

MaxLen == 3
MaxComp == 2
MaxDimLen == 3
MaxBounds == 2
MaxH == 2
MaxCols == 3
MaxRegions == 2
MaxVerts == 2
MaxRes == 2
RngPeriod == 3

----------------------------------------------------------------------------
(* Python and numpy primitives.                                            *)

Digits == <<"0", "1", "2", "3", "4", "5", "6", "7", "8", "9">>

RECURSIVE Str(_)
Str(n) ==
    IF n < 0 THEN "-" \o Str(0 - n)
    ELSE IF n < 10 THEN Digits[n + 1]
    ELSE Str(n \div 10) \o Digits[(n % 10) + 1]

RECURSIVE JoinInts(_)
JoinInts(s) ==
    IF Len(s) = 0 THEN ""
    ELSE IF Len(s) = 1 THEN Str(s[1])
    ELSE Str(s[1]) \o ", " \o JoinInts(Tail(s))

StrList(s) == "[" \o JoinInts(s) \o "]"

\* v[j] with Python's 0-based index j
At(v, j) == v[j + 1]

\* np.linspace(a, b, n) on inputs whose step (b - a) / (n - 1) is exact
Linspace(a, b, n) ==
    [k \in 1..n |-> IF n = 1 THEN a ELSE a + ((k - 1) * (b - a)) \div (n - 1)]

\* c * np.ones(t.shape)
TimesOnes(c, t) == [k \in 1..Len(t) |-> c * 1]

RECURSIVE Dot(_, _)
Dot(row, v) ==
    IF Len(row) = 0 THEN 0 ELSE row[1] * v[1] + Dot(Tail(row), Tail(v))

\* C.dot(x_t)
MatVec(C, v) == [r \in 1..Len(C) |-> Dot(C[r], v)]

RECURSIVE MaxOf(_)
MaxOf(s) ==
    IF Len(s) = 1 THEN s[1]
    ELSE LET m == MaxOf(Tail(s)) IN IF s[1] >= m THEN s[1] ELSE m

RECURSIVE MinOf(_)
MinOf(s) ==
    IF Len(s) = 1 THEN s[1]
    ELSE LET m == MinOf(Tail(s)) IN IF s[1] <= m THEN s[1] ELSE m

\* np.random.rand(3) in generator state r
Rand3(r) == <<r, (r + 1) % RngPeriod, (r + 2) % RngPeriod>>

----------------------------------------------------------------------------
(* One call, as the backend sees it: the operation, the axes it lands on   *)
(* (0: the axes that were current before any subplot), the numeric         *)
(* arguments, the string argument and the list-of-strings argument.        *)

Call(op, ax, xs, ys, s, names) ==
    [op |-> op, ax |-> ax, xs |-> xs, ys |-> ys, s |-> s, names |-> names]

Return(cs, k) == [calls |-> cs, outcome |-> "ok", checks |-> k]

Raise(e, cs, k) == [calls |-> cs, outcome |-> e, checks |-> k]

----------------------------------------------------------------------------
(* plot_state_space_trajectory                                             *)

\* faulty variant: three indices are let through
TrajectoryDimInvalidLoose(dim) == Len(dim) < 2

TrajectoryDimInvalid(dim) == Len(dim) # 2

Segment(x, dim, t, ax, names) ==
    Call("plot", ax,
         <<At(At(x, t), At(dim, 0)), At(At(x, t + 1), At(dim, 0))>>,
         <<At(At(x, t), At(dim, 1)), At(At(x, t + 1), At(dim, 1))>>,
         "", names)

\* faulty variant: the labelled copy of segment 0 after the plain one
RECURSIVE TrajectoryLoopLabelLast(_, _, _, _, _)
TrajectoryLoopLabelLast(x, dim, label, ax, t) ==
    IF t >= Len(x) - 1 THEN <<>>
    ELSE <<Segment(x, dim, t, ax, <<>>)>>
         \o (IF t = 0 THEN <<Segment(x, dim, 0, ax, <<label>>)>> ELSE <<>>)
         \o TrajectoryLoopLabelLast(x, dim, label, ax, t + 1)

RECURSIVE TrajectoryLoop(_, _, _, _, _)
TrajectoryLoop(x, dim, label, ax, t) ==
    IF t >= Len(x) - 1 THEN <<>>
    ELSE (IF t = 0 THEN <<Segment(x, dim, 0, ax, <<label>>)>> ELSE <<>>)
         \o <<Segment(x, dim, t, ax, <<>>)>>
         \o TrajectoryLoop(x, dim, label, ax, t + 1)

RECURSIVE TextLoop(_, _, _, _)
TextLoop(x, text, ax, t) ==
    IF t >= Len(x) THEN <<>>
    ELSE (IF text
          THEN <<Call("text", ax, <<At(At(x, t), 0)>>, <<At(At(x, t), 1)>>,
                      "$x(" \o Str(t) \o ")$", <<>>)>>
          ELSE <<>>)
         \o TextLoop(x, text, ax, t + 1)

\* faulty variant: the axis labels before the scatter
LabelsThenScatter(x, dim, ax) ==
    << Call("xlabel", ax, <<>>, <<>>, "$x_{" \o Str(At(dim, 0) + 1) \o "}$", <<>>),
       Call("ylabel", ax, <<>>, <<>>, "$x_{" \o Str(At(dim, 1) + 1) \o "}$", <<>>),
       Call("scatter", ax, <<At(At(x, 0), At(dim, 0))>>,
            <<At(At(x, 0), At(dim, 1))>>, "", <<>>) >>

ScatterAndLabels(x, dim, ax) ==
    << Call("scatter", ax, <<At(At(x, 0), At(dim, 0))>>,
            <<At(At(x, 0), At(dim, 1))>>, "", <<>>),
       Call("xlabel", ax, <<>>, <<>>, "$x_{" \o Str(At(dim, 0) + 1) \o "}$", <<>>),
       Call("ylabel", ax, <<>>, <<>>, "$x_{" \o Str(At(dim, 1) + 1) \o "}$", <<>>) >>

PlotStateSpaceTrajectory(x, dim, text, label, ax) ==
    IF TrajectoryDimInvalid(dim) THEN Raise("ValueError", <<>>, 1)
    ELSE LET drawn == TrajectoryLoop(x, dim, label, ax, 0)
                      \o TextLoop(x, text, ax, 0)
         IN  IF Len(x) = 0 THEN Raise("IndexError", drawn, 1)
             ELSE Return(drawn \o ScatterAndLabels(x, dim, ax), 1)

----------------------------------------------------------------------------
(* plot_input_sequence, plot_state_trajectory, plot_output_trajectory: the *)
(* three loops over the components have the same body up to the draw       *)
(* primitive, the label letter and the legend texts.  A bounds argument is *)
(* [given |-> FALSE] for None, else [given |-> TRUE, list |-> the list].   *)

\* faulty variant: the subplots are counted from the current axes
SubplotIndexFromCurrent(i, ax0) == ax0 + i + 1

\* third argument of plt.subplot(n, 1, i+1)
SubplotIndex(i, ax0) == i + 1

RECURSIVE BoundLoop(_, _, _, _)
BoundLoop(t, list, i, ax) ==
    IF Len(list) = 0 THEN <<>>
    ELSE <<Call("step", ax, t, TimesOnes(At(list[1], i), t), "r", <<>>)>>
         \o BoundLoop(t, Tail(list), i, ax)

\* faulty variant: the bounds never reach the legend
LegendSeriesOnly(bounds, series_plot, bound_plot, names, ax) ==
    <<Call("legend", ax, <<series_plot>>, <<1>>, "", <<names[1]>>)>>

\* a handle is the position, in the invocation's calls, of the call that
\* returned the line
Legend(bounds, series_plot, bound_plot, names, ax) ==
    IF bounds.given
    THEN <<Call("legend", ax, <<series_plot, bound_plot>>, <<1>>, "", names)>>
    ELSE <<Call("legend", ax, <<series_plot>>, <<1>>, "", <<names[1]>>)>>

\* faulty variant: the 0-based index in the label
YLabelZeroBased(letter, i) == "$" \o letter \o "_{" \o Str(i) \o "}$"

YLabel(letter, i) == "$" \o letter \o "_{" \o Str(i + 1) \o "}$"

SubplotBody(n, i, ax0, drawop, t, series, bounds, letter, xmax, names) ==
    LET ax == SubplotIndex(i, ax0)
        head == << Call("subplot", ax, <<n, 1, SubplotIndex(i, ax0)>>, <<>>, "", <<>>),
                   Call(drawop, ax, t, series, "b", <<>>) >>
                \o (IF bounds.given THEN BoundLoop(t, bounds.list, i, ax) ELSE <<>>)
                \o << Call("ylabel", ax, <<>>, <<>>, YLabel(letter, i), <<>>),
                      Call("xlim", ax, <<0, xmax>>, <<>>, "", <<>>) >>
    IN  IF i # 0 THEN [calls |-> head, outcome |-> "ok"]
        ELSE IF bounds.given /\ Len(bounds.list) = 0
             \* bound_plot is read before any assignment
             THEN [calls |-> head, outcome |-> "UnboundLocalError"]
             ELSE [calls |-> head \o Legend(bounds, 2, 2 + Len(bounds.list), names, ax),
                   outcome |-> "ok"]

RECURSIVE SubplotLoop(_, _, _, _, _, _, _, _, _, _)
SubplotLoop(n, i, ax0, drawop, t, allSeries, bounds, letter, xmax, names) ==
    IF i >= n THEN [calls |-> <<>>, outcome |-> "ok"]
    ELSE LET s == SubplotBody(n, i, ax0, drawop, t, allSeries[i + 1], bounds,
                              letter, xmax, names)
         IN  IF s.outcome # "ok" THEN s
             ELSE LET r == SubplotLoop(n, i + 1, ax0, drawop, t, allSeries,
                                       bounds, letter, xmax, names)
                  IN  [calls |-> s.calls \o r.calls, outcome |-> r.outcome]

\* plt.xlabel after the loop lands on the axes the loop left current
TimeLabel(loopCalls, ax0) ==
    Call("xlabel", IF Len(loopCalls) = 0 THEN ax0 ELSE loopCalls[Len(loopCalls)].ax,
         <<>>, <<>>, "$t$", <<>>)

Finish(r, ax0, k) ==
    IF r.outcome # "ok" THEN Raise(r.outcome, r.calls, k)
    ELSE Return(r.calls \o <<TimeLabel(r.calls, ax0)>>, k)

\* faulty variant: the last value repeated instead of the first
InputSeriesRepeatLast(u, i) ==
    LET u_i_sequence == [k \in 1..Len(u) |-> At(At(u, k - 1), i)]
    IN  u_i_sequence \o <<u_i_sequence[Len(u)]>>

\* [u_i_sequence[0]] + u_i_sequence
InputSeries(u, i) ==
    LET u_i_sequence == [k \in 1..Len(u) |-> At(At(u, k - 1), i)]
    IN  <<u_i_sequence[1]>> \o u_i_sequence

PlotInputSequence(u, h, u_bounds, ax0) ==
    IF Len(u) = 0 THEN Raise("IndexError", <<>>, 0)
    ELSE LET nu == Len(At(u, 0))
             N == Len(u)
             t == Linspace(0, N * h, N + 1)
         IN  Finish(SubplotLoop(nu, 0, ax0, "step", t,
                                [i \in 1..nu |-> InputSeries(u, i - 1)],
                                u_bounds, "u", N * h,
                                <<"Optimal control", "Control bounds">>),
                    ax0, 0)

\* N = len(x) - 1
StateHorizon(x) == Len(x) - 1

PlotStateTrajectory(x, h, x_bounds, ax0) ==
    IF Len(x) = 0 THEN Raise("IndexError", <<>>, 0)
    ELSE LET nx == Len(At(x, 0))
             N == StateHorizon(x)
             t == Linspace(0, N * h, N + 1)
         IN  Finish(SubplotLoop(nx, 0, ax0, "plot", t,
                                [i \in 1..nx |-> [k \in 1..Len(x) |-> At(At(x, k - 1), i - 1)]],
                                x_bounds, "x", N * h,
                                <<"Optimal trajectory", "State bounds">>),
                    ax0, 0)

PlotOutputTrajectory(C, x, h, y_bounds, ax0) ==
    LET y == [k \in 1..Len(x) |-> MatVec(C, x[k])]
        ny == Len(C)
        N == Len(x) - 1
        t == Linspace(0, N * h, N + 1)
    IN  Finish(SubplotLoop(ny, 0, ax0, "plot", t,
                           [i \in 1..ny |-> [k \in 1..Len(x) |-> At(At(y, k - 1), i - 1)]],
                           y_bounds, "y", N * h,
                           <<"Optimal trajectory", "Output bounds">>),
               ax0, 0)

----------------------------------------------------------------------------
(* plot_partition_explicit_solution and plot_value_function_mpqp.  A       *)
(* critical region is [polyhedron |-> [ncols, center], active_set], ncols  *)
(* standing for polyhedron.A.shape[1].                                     *)

PartitionDimInvalid(explicit_solution) ==
    At(explicit_solution.critical_regions, 0).polyhedron.ncols # 2

RECURSIVE RegionLoop(_, _, _, _, _)
RegionLoop(regions, print_active_set, ax, r, k) ==
    IF k > Len(regions) THEN <<>>
    ELSE LET cr == regions[k]
         IN  <<Call("polyhedron.plot", ax, <<k - 1>>, Rand3((r + k - 1) % RngPeriod), "", <<>>)>>
             \o (IF print_active_set
                 THEN <<Call("text", ax, <<At(cr.polyhedron.center, 0)>>,
                             <<At(cr.polyhedron.center, 1)>>,
                             StrList(cr.active_set), <<>>)>>
                 ELSE <<>>)
             \o RegionLoop(regions, print_active_set, ax, r, k + 1)

PlotPartitionExplicitSolution(explicit_solution, print_active_set, ax, r) ==
    IF Len(explicit_solution.critical_regions) = 0 THEN Raise("IndexError", <<>>, 1)
    ELSE IF PartitionDimInvalid(explicit_solution) THEN Raise("ValueError", <<>>, 1)
    ELSE Return(RegionLoop(explicit_solution.critical_regions, print_active_set, ax, r, 1), 1)

\* faulty variant: no check
ValueFunctionDimIgnored(explicit_solution) == FALSE

ValueFunctionDimInvalid(explicit_solution) ==
    At(explicit_solution.critical_regions, 0).polyhedron.ncols # 2

GetFeasibleSet(ax) == Call("get_feasible_set", ax, <<>>, <<>>, "", <<>>)

ValueFunctionBody(mpqp, resolution, ax) ==
    LET vertices == mpqp.feasible_set.vertices
        x_max == MaxOf([v \in 1..Len(vertices) |-> At(vertices[v], 0)])
        x_min == MinOf([v \in 1..Len(vertices) |-> At(vertices[v], 0)])
        y_max == MaxOf([v \in 1..Len(vertices) |-> At(vertices[v], 1)])
        y_min == MinOf([v \in 1..Len(vertices) |-> At(vertices[v], 1)])
        x == Linspace(x_min, x_max, resolution)
        y == Linspace(y_min, y_max, resolution)
        \* np.ravel of np.meshgrid(x, y): row r, column c holds (x[c], y[r])
        ravelX == [p \in 1..(resolution * resolution) |-> x[((p - 1) % resolution) + 1]]
        ravelY == [p \in 1..(resolution * resolution) |-> y[((p - 1) \div resolution) + 1]]
    IN  <<GetFeasibleSet(ax)>>
        \o [p \in 1..(resolution * resolution) |->
               Call("V", ax, <<ravelX[p]>>, <<ravelY[p]>>, "", <<>>)]
        \o << Call("feasible_set.plot", ax, <<>>, <<>>, "", <<>>),
              Call("contour", ax, ravelX, ravelY, "", <<>>),
              Call("colorbar", ax, <<>>, <<>>, "", <<>>),
              Call("title", ax, <<>>, <<>>, "$V^*(x)$", <<>>) >>

\* faulty variant: the feasible set is fetched before the check
PlotValueFunctionMpqpLateCheck(mpqp, explicit_solution, resolution, ax) ==
    IF Len(explicit_solution.critical_regions) = 0 THEN Raise("IndexError", <<>>, 1)
    ELSE IF ValueFunctionDimInvalid(explicit_solution)
         THEN Raise("ValueError", <<GetFeasibleSet(ax)>>, 1)
    ELSE Return(ValueFunctionBody(mpqp, resolution, ax), 1)

PlotValueFunctionMpqp(mpqp, explicit_solution, resolution, ax) ==
    IF Len(explicit_solution.critical_regions) = 0 THEN Raise("IndexError", <<>>, 1)
    ELSE IF ValueFunctionDimInvalid(explicit_solution) THEN Raise("ValueError", <<>>, 1)
    ELSE Return(ValueFunctionBody(mpqp, resolution, ax), 1)

----------------------------------------------------------------------------
(* The arguments explored.  Every entry of a trajectory, of a bound and of *)
(* a centre is a different number, so that a call that picks the wrong     *)
(* time step or the wrong component shows in its arguments.  Vectors have  *)
(* at least one component, a state-space trajectory at least two (the text *)
(* annotations read components 0 and 1), and dim holds valid indices.      *)

\* x[t][j]
Elem(t, j) == t * (MaxComp + 1) + j + 1

Trajectory(len, n) == [t \in 1..len |-> [j \in 1..n |-> Elem(t - 1, j - 1)]]

\* bound number m (0-based), component j
BoundElem(m, j) == 100 + m * (MaxComp + 1) + j

NoBounds == [given |-> FALSE, list |-> <<>>]

BoundsArgs(n) ==
    {NoBounds} \cup
    {[given |-> TRUE, list |-> [m \in 1..k |-> [j \in 1..n |-> BoundElem(m - 1, j - 1)]]] :
        k \in 0..MaxBounds}

\* output matrices whose row r selects one component of the state
SelectionMatrices(ny, nx) ==
    {[r \in 1..ny |-> [c \in 1..nx |-> IF c = sel[r] THEN 1 ELSE 0]] :
        sel \in [1..ny -> 1..nx]}

DimArgs(n) == UNION {[1..k -> 0..(n - 1)] : k \in 1..MaxDimLen}

Labels == {"None", "trajectory"}

Region(k, ncols) ==
    [polyhedron |-> [ncols |-> ncols,
                     center |-> [j \in 1..ncols |-> k * (MaxCols + 1) + j]],
     active_set |-> [a \in 1..(k - 1) |-> a - 1]]

ExplicitSolutions ==
    {[critical_regions |-> [k \in 1..n |-> Region(k, ncols)]] :
        n \in 0..MaxRegions, ncols \in 1..MaxCols}

\* a feasible set with n vertices; the coordinates are multiples of 6, which
\* keeps the grid steps of the explored resolutions exact
Mpqp(n) ==
    [feasible_set |-> [vertices |-> [v \in 1..n |-> <<6 * v, 12 * (n - v)>>]]]

StateSpaceInvocations ==
    UNION {{[fn |-> "plot_state_space_trajectory", x |-> Trajectory(len, n),
             dim |-> dim, text |-> text, label |-> label] :
               len \in 0..MaxLen, dim \in DimArgs(n), text \in BOOLEAN, label \in Labels} :
           n \in 2..MaxComp}

InputInvocations ==
    UNION {{[fn |-> "plot_input_sequence", u |-> Trajectory(len, n), h |-> h,
             u_bounds |-> b] :
               len \in 0..MaxLen, h \in 1..MaxH, b \in BoundsArgs(n)} :
           n \in 1..MaxComp}

StateInvocations ==
    UNION {{[fn |-> "plot_state_trajectory", x |-> Trajectory(len, n), h |-> h,
             x_bounds |-> b] :
               len \in 0..MaxLen, h \in 1..MaxH, b \in BoundsArgs(n)} :
           n \in 1..MaxComp}

OutputInvocations ==
    UNION {UNION {{[fn |-> "plot_output_trajectory", C |-> C, x |-> Trajectory(len, nx),
                    h |-> h, y_bounds |-> b] :
                      C \in SelectionMatrices(ny, nx), len \in 0..MaxLen,
                      h \in 1..MaxH, b \in BoundsArgs(ny)} :
                  ny \in 1..MaxComp} :
           nx \in 1..MaxComp}

PartitionInvocations ==
    {[fn |-> "plot_partition_explicit_solution", explicit_solution |-> sol,
      print_active_set |-> p] : sol \in ExplicitSolutions, p \in BOOLEAN}

ValueFunctionInvocations ==
    {[fn |-> "plot_value_function_mpqp", mpqp |-> Mpqp(n), explicit_solution |-> sol,
      resolution |-> res] :
        n \in 1..MaxVerts, sol \in ExplicitSolutions, res \in 1..MaxRes}

Invocations ==
    StateSpaceInvocations \cup InputInvocations \cup StateInvocations
    \cup OutputInvocations \cup PartitionInvocations \cup ValueFunctionInvocations

----------------------------------------------------------------------------
(* The state machine.  inv is the call under study, invoked any number of  *)
(* times; rng and cur are numpy's generator state and pyplot's current     *)
(* axes, arbitrary at the start (whatever ran before) and carried from one *)
(* invocation to the next; calls, outcome and checks are the calls issued, *)
(* the exception raised and the precondition checks executed by the last   *)
(* invocation; first keeps the calls of the first invocation.              *)

\* a call without the axes it landed on: the operation and its arguments
Args(c) == [op |-> c.op, xs |-> c.xs, ys |-> c.ys, s |-> c.s, names |-> c.names]

ArgsOf(cs) == [k \in 1..Len(cs) |-> Args(cs[k])]

Init ==
    /\ inv \in Invocations
    /\ rng \in 0..(RngPeriod - 1)
    /\ cur \in 0..MaxComp
    /\ calls = <<>>
    /\ outcome = "none"
    /\ checks = 0
    /\ invocations = 0
    /\ first = <<>>

Complete(r) ==
    /\ calls' = r.calls
    /\ outcome' = r.outcome
    /\ checks' = r.checks
    /\ cur' = IF Len(r.calls) = 0 THEN cur ELSE r.calls[Len(r.calls)].ax
    /\ invocations' = IF invocations = 0 THEN 1 ELSE 2
    /\ first' = IF invocations = 0 THEN ArgsOf(r.calls) ELSE first
    /\ UNCHANGED inv

plot_state_space_trajectory ==
    /\ inv.fn = "plot_state_space_trajectory"
    /\ Complete(PlotStateSpaceTrajectory(inv.x, inv.dim, inv.text, inv.label, cur))
    /\ UNCHANGED rng

plot_input_sequence ==
    /\ inv.fn = "plot_input_sequence"
    /\ Complete(PlotInputSequence(inv.u, inv.h, inv.u_bounds, cur))
    /\ UNCHANGED rng

plot_state_trajectory ==
    /\ inv.fn = "plot_state_trajectory"
    /\ Complete(PlotStateTrajectory(inv.x, inv.h, inv.x_bounds, cur))
    /\ UNCHANGED rng

plot_output_trajectory ==
    /\ inv.fn = "plot_output_trajectory"
    /\ Complete(PlotOutputTrajectory(inv.C, inv.x, inv.h, inv.y_bounds, cur))
    /\ UNCHANGED rng

plot_partition_explicit_solution ==
    /\ inv.fn = "plot_partition_explicit_solution"
    /\ LET r == PlotPartitionExplicitSolution(inv.explicit_solution,
                                              inv.print_active_set, cur, rng)
       IN  /\ Complete(r)
           \* one np.random.rand(3) per polyhedron plotted
           /\ rng' = (rng + Cardinality({k \in 1..Len(r.calls) :
                                           r.calls[k].op = "polyhedron.plot"})) % RngPeriod

plot_value_function_mpqp ==
    /\ inv.fn = "plot_value_function_mpqp"
    /\ Complete(PlotValueFunctionMpqp(inv.mpqp, inv.explicit_solution,
                                      inv.resolution, cur))
    /\ UNCHANGED rng

Next ==
    \/ plot_state_space_trajectory
    \/ plot_input_sequence
    \/ plot_state_trajectory
    \/ plot_output_trajectory
    \/ plot_partition_explicit_solution
    \/ plot_value_function_mpqp

Spec == Init /\ [][Next]_vars

----------------------------------------------------------------------------
(* Vocabulary of the properties.                                           *)

TwoDFunctions ==
    {"plot_state_space_trajectory", "plot_partition_explicit_solution",
     "plot_value_function_mpqp"}

TimeSeriesFunctions ==
    {"plot_input_sequence", "plot_state_trajectory", "plot_output_trajectory"}

DrawOps == {"plot", "step", "scatter", "text", "contour"}

DecorateOps == {"xlabel", "ylabel", "xlim", "legend"}

Done == invocations > 0

\* positions, in the calls of the last invocation, of the calls of operation op
Positions(op) == {k \in 1..Len(calls) : calls[k].op = op}

\* the same, on subplot ax only
PositionsOn(op, ax) == {k \in Positions(op) : calls[k].ax = ax}

\* the invocation has a dimensionality to check
HasDimension ==
    \/ inv.fn = "plot_state_space_trajectory"
    \/ /\ inv.fn \in {"plot_partition_explicit_solution", "plot_value_function_mpqp"}
       /\ Len(inv.explicit_solution.critical_regions) >= 1

Dimensionality ==
    IF inv.fn = "plot_state_space_trajectory" THEN Len(inv.dim)
    ELSE inv.explicit_solution.critical_regions[1].polyhedron.ncols

\* the sequence a time-series function is given, its bounds argument, its
\* number of components and its time horizon N
SeriesArg == IF inv.fn = "plot_input_sequence" THEN inv.u ELSE inv.x

BoundsArg ==
    IF inv.fn = "plot_input_sequence" THEN inv.u_bounds
    ELSE IF inv.fn = "plot_state_trajectory" THEN inv.x_bounds
    ELSE inv.y_bounds

Components ==
    IF inv.fn = "plot_output_trajectory" THEN Len(inv.C) ELSE Len(SeriesArg[1])

Horizon ==
    IF inv.fn = "plot_input_sequence" THEN Len(inv.u) ELSE Len(inv.x) - 1

\* the function can read the number of components off its arguments
HasComponent ==
    /\ inv.fn \in TimeSeriesFunctions
    /\ inv.fn # "plot_output_trajectory" => Len(SeriesArg) >= 1

----------------------------------------------------------------------------
(* C1: each of the three 2D functions raises ValueError exactly when the   *)
(* dimensionality it checks (len(dim), or the number of columns of the     *)
(* first critical region's A) is not 2.                                    *)
C1_DimensionError ==
    (Done /\ HasDimension) => (outcome = "ValueError" <=> Dimensionality # 2)

C1_Witness ==
    /\ Done
    /\ inv.fn = "plot_partition_explicit_solution"
    /\ Len(inv.explicit_solution.critical_regions) = 2
    /\ Dimensionality = 3
    /\ outcome = "ValueError"

(* C2, as stated: every one of the six functions performs exactly one      *)
(* precondition check, whether the call then completes or raises the       *)
(* ValueError.                                                             *)
C2_OneCheckEach == (Done /\ outcome \in {"ok", "ValueError"}) => checks = 1

(* C2, amended: the three 2D functions perform exactly one precondition    *)
(* check, of the dimensionality, and raise ValueError when it is not 2;    *)
(* the three time-series functions perform no precondition check and never *)
(* raise ValueError.                                                       *)
C2_OneCheckIn2DOnly ==
    Done =>
        /\ inv.fn \in TwoDFunctions =>
              /\ checks = 1
              /\ (HasDimension /\ Dimensionality # 2) => outcome = "ValueError"
        /\ inv.fn \in TimeSeriesFunctions =>
              /\ checks = 0
              /\ outcome # "ValueError"

C2_Witness ==
    /\ Done
    /\ inv.fn = "plot_output_trajectory"
    /\ Len(inv.C) = 2
    /\ Len(inv.x) = 2
    /\ outcome = "ok"
    /\ checks = 0

(* C3, as stated: with at least one component, the legend of the first     *)
(* subplot has two entries whenever bounds is not None (any list) and one  *)
(* entry when bounds is None, and the call completes without error.        *)
C3_LegendAnyList ==
    (Done /\ HasComponent) =>
        /\ outcome = "ok"
        /\ Cardinality(Positions("legend")) = 1
        /\ \A k \in Positions("legend") :
              /\ calls[k].ax = 1
              /\ Len(calls[k].names) = IF BoundsArg.given THEN 2 ELSE 1

(* C3, amended: the legend of the first subplot has two entries (the       *)
(* series and the last bound drawn) whenever bounds is a non-empty list,   *)
(* and one entry when bounds is None, the call completing in both cases;   *)
(* with an empty list the call raises UnboundLocalError before any legend. *)
C3_LegendNonEmptyList ==
    (Done /\ HasComponent) =>
        IF BoundsArg.given /\ Len(BoundsArg.list) = 0
        THEN outcome = "UnboundLocalError" /\ Positions("legend") = {}
        ELSE /\ outcome = "ok"
             /\ Cardinality(Positions("legend")) = 1
             /\ \A k \in Positions("legend") :
                   /\ calls[k].ax = 1
                   /\ Len(calls[k].names) = IF BoundsArg.given THEN 2 ELSE 1
                   /\ Len(calls[k].xs) = Len(calls[k].names)
                   /\ calls[calls[k].xs[1]].s = "b"
                   /\ BoundsArg.given => calls[calls[k].xs[2]].s = "r"

C3_Witness ==
    /\ Done
    /\ inv.fn = "plot_state_trajectory"
    /\ Len(inv.x) = 2
    /\ BoundsArg.given
    /\ Len(BoundsArg.list) = 2
    /\ \E k \in Positions("legend") : Len(calls[k].names) = 2

(* C4: in a completed call, plot_state_space_trajectory labels the axes    *)
(* x_{dim[0]+1} and x_{dim[1]+1}; a time-series function gives the subplot *)
(* of component i the y-label of index i+1 and the x-limits (0, N*h), and  *)
(* sets the x-label t exactly once, on the last subplot.                   *)
C4_LabelsAndLimits ==
    (Done /\ outcome = "ok") =>
        /\ inv.fn = "plot_state_space_trajectory" =>
              /\ Cardinality(Positions("xlabel")) = 1
              /\ Cardinality(Positions("ylabel")) = 1
              /\ \A k \in Positions("xlabel") :
                    calls[k].s = "$x_{" \o Str(inv.dim[1] + 1) \o "}$"
              /\ \A k \in Positions("ylabel") :
                    calls[k].s = "$x_{" \o Str(inv.dim[2] + 1) \o "}$"
        /\ inv.fn \in TimeSeriesFunctions =>
              /\ \A i \in 0..(Components - 1) :
                    /\ Cardinality(PositionsOn("ylabel", i + 1)) = 1
                    /\ Cardinality(PositionsOn("xlim", i + 1)) = 1
                    /\ \A k \in PositionsOn("ylabel", i + 1) :
                          calls[k].s =
                              "$" \o (IF inv.fn = "plot_input_sequence" THEN "u"
                                      ELSE IF inv.fn = "plot_state_trajectory" THEN "x"
                                      ELSE "y")
                                  \o "_{" \o Str(i + 1) \o "}$"
                    /\ \A k \in PositionsOn("xlim", i + 1) :
                          calls[k].xs = <<0, Horizon * inv.h>>
              /\ Cardinality(Positions("ylabel")) = Components
              /\ Cardinality(Positions("xlim")) = Components
              /\ Positions("xlabel") = {Len(calls)}
              /\ calls[Len(calls)].ax = Components
              /\ calls[Len(calls)].s = "$t$"

C4_Witness ==
    /\ Done
    /\ outcome = "ok"
    /\ inv.fn = "plot_state_trajectory"
    /\ Components = 2
    /\ Len(inv.x) = 3
    /\ inv.h = 2
    /\ \E k \in PositionsOn("xlim", 2) : calls[k].xs = <<0, 4>>

\* the calls with the facecolor of every polyhedron plot blanked
NoFaceColor(cs) ==
    [k \in 1..Len(cs) |->
        IF cs[k].op = "polyhedron.plot" THEN [cs[k] EXCEPT !.ys = <<>>] ELSE cs[k]]

(* C5, as stated: two invocations of the same function with equal          *)
(* arguments issue the same calls with the same arguments.                 *)
C5_SameCalls == Done => ArgsOf(calls) = first

(* C5, amended: two invocations of the same function with equal arguments  *)
(* issue the same calls with the same arguments, whatever the current axes *)
(* and the generator state, except for the facecolor argument of the       *)
(* polyhedron plots of plot_partition_explicit_solution, which is drawn    *)
(* from numpy's global random generator.                                   *)
C5_SameCallsUpToFaceColor ==
    Done =>
        /\ NoFaceColor(ArgsOf(calls)) = NoFaceColor(first)
        /\ inv.fn # "plot_partition_explicit_solution" => ArgsOf(calls) = first

C5_Witness ==
    /\ invocations = 2
    /\ inv.fn = "plot_partition_explicit_solution"
    /\ outcome = "ok"
    /\ ArgsOf(calls) # first

(* C6: when one of the three 2D functions raises its dimensionality        *)
(* ValueError, the invocation has issued no call at all: no backend call,  *)
(* no mpqp.get_feasible_set, no explicit_solution.V.                       *)
C6_NothingOnValueError ==
    (Done /\ outcome = "ValueError") => (inv.fn \in TwoDFunctions /\ calls = <<>>)

C6_Witness ==
    /\ Done
    /\ inv.fn = "plot_value_function_mpqp"
    /\ HasDimension
    /\ Dimensionality = 3
    /\ calls = <<>>
    /\ outcome = "ValueError"

(* C7, as stated: every draw call is issued before the first call that     *)
(* sets an axis label, an axis limit or a legend.                          *)
C7_DrawBeforeDecorate ==
    Done =>
        \A i, j \in 1..Len(calls) :
            (i < j /\ calls[i].op \in DecorateOps) => calls[j].op \notin DrawOps

(* C7, amended: on each axes every draw call is issued before the first    *)
(* call that sets an axis label, an axis limit or a legend; a draw call    *)
(* that follows such a call belongs to a later subplot of a time series of *)
(* two or more components.                                                 *)
C7_DrawBeforeDecoratePerSubplot ==
    Done =>
        \A i, j \in 1..Len(calls) :
            (i < j /\ calls[i].op \in DecorateOps /\ calls[j].op \in DrawOps) =>
                /\ inv.fn \in TimeSeriesFunctions
                /\ calls[i].ax < calls[j].ax

C7_Witness ==
    /\ Done
    /\ inv.fn = "plot_output_trajectory"
    /\ Len(calls) >= 2
    /\ calls[Len(calls) - 1].op = "xlim"
    /\ \E i, j \in 1..Len(calls) :
          i < j /\ calls[i].op = "legend" /\ calls[j].op = "step"

(* C8: in plot_input_sequence with N = len(u) >= 1, every component i is   *)
(* drawn once, against the time axis k*h, k = 0..N, as the series u[0][i], *)
(* u[0][i], u[1][i], ..., u[N-1][i] of the same length N+1, and every      *)
(* bound is drawn once per component as a constant series of length N+1.   *)
C8_InputSeries ==
    (Done /\ inv.fn = "plot_input_sequence" /\ Len(inv.u) >= 1) =>
        LET N == Len(inv.u)
            t == [k \in 1..(N + 1) |-> (k - 1) * inv.h]
            series(i) == {k \in PositionsOn("step", i + 1) : calls[k].s = "b"}
            bounds(i) == {k \in PositionsOn("step", i + 1) : calls[k].s = "r"}
            list == IF inv.u_bounds.given THEN inv.u_bounds.list ELSE <<>>
        IN  /\ outcome = "ok" =>
                  \A i \in 0..(Components - 1) : PositionsOn("subplot", i + 1) # {}
            /\ \A i \in 0..(Components - 1) :
                  PositionsOn("subplot", i + 1) # {} =>
                      /\ Cardinality(series(i)) = 1
                      /\ \A k \in series(i) :
                            /\ calls[k].xs = t
                            /\ Len(calls[k].ys) = N + 1
                            /\ calls[k].ys[1] = inv.u[1][i + 1]
                            /\ \A m \in 1..N : calls[k].ys[m + 1] = inv.u[m][i + 1]
                      /\ Cardinality(bounds(i)) = Len(list)
                      /\ \A m \in 1..Len(list) :
                            Cardinality({k \in bounds(i) :
                                /\ calls[k].xs = t
                                /\ calls[k].ys = [q \in 1..(N + 1) |-> list[m][i + 1]]}) = 1

C8_Witness ==
    /\ Done
    /\ inv.fn = "plot_input_sequence"
    /\ Len(inv.u) = 3
    /\ Components = 2
    /\ inv.h = 2
    /\ inv.u_bounds.given
    /\ Len(inv.u_bounds.list) = 2
    /\ outcome = "ok"
    /\ \E k \in PositionsOn("step", 2) : calls[k].ys = <<2, 2, 2 + MaxComp + 1, 2 + 2 * (MaxComp + 1)>>

(* C9: in plot_state_space_trajectory with len(dim) = 2 and n = len(x) >=  *)
(* 1, the segment calls come first; for n >= 2 there are n of them, the    *)
(* first one carries the label and draws segment 0, the others carry none  *)
(* and draw the segments t = 0..n-2 in increasing t (n = 1: none); then    *)
(* exactly one scatter call marks x[0], after every segment call.          *)
C9_Segments ==
    (Done /\ inv.fn = "plot_state_space_trajectory" /\ Len(inv.dim) = 2
          /\ Len(inv.x) >= 1) =>
        LET n == Len(inv.x)
            d0 == inv.dim[1] + 1
            d1 == inv.dim[2] + 1
            nseg == IF n >= 2 THEN n ELSE 0
        IN  /\ Positions("plot") = 1..nseg
            /\ n >= 2 =>
                  /\ calls[1].names = <<inv.label>>
                  /\ calls[1].xs = <<inv.x[1][d0], inv.x[2][d0]>>
                  /\ calls[1].ys = <<inv.x[1][d1], inv.x[2][d1]>>
            /\ \A k \in 2..nseg :
                  /\ calls[k].names = <<>>
                  /\ calls[k].xs = <<inv.x[k - 1][d0], inv.x[k][d0]>>
                  /\ calls[k].ys = <<inv.x[k - 1][d1], inv.x[k][d1]>>
            /\ Cardinality(Positions("scatter")) = 1
            /\ \A k \in Positions("scatter") :
                  /\ k > nseg
                  /\ calls[k].xs = <<inv.x[1][d0]>>
                  /\ calls[k].ys = <<inv.x[1][d1]>>

C9_Witness ==
    /\ Done
    /\ inv.fn = "plot_state_space_trajectory"
    /\ inv.dim = <<1, 0>>
    /\ Len(inv.x) = 3
    /\ inv.label = "trajectory"
    /\ Cardinality(Positions("plot")) = 3
    /\ calls[3].xs = <<inv.x[2][2], inv.x[3][2]>>

\* the text annotations of the last invocation, in the order issued
TextCalls == SelectSeq(calls, LAMBDA c : c.op = "text")

(* C10: in a completed plot_state_space_trajectory, text=True issues       *)
(* exactly len(x) annotations, in the order t = 0..len(x)-1, captioned     *)
(* x(t) and placed at the point where state t is plotted,                  *)
(* (x[t][dim[0]], x[t][dim[1]]); text=False issues none.                   *)
C10_TextAtPlottedPoint ==
    (Done /\ inv.fn = "plot_state_space_trajectory" /\ outcome = "ok") =>
        IF inv.text
        THEN /\ Len(TextCalls) = Len(inv.x)
             /\ \A t \in 1..Len(TextCalls) :
                   /\ TextCalls[t].s = "$x(" \o Str(t - 1) \o ")$"
                   /\ TextCalls[t].xs = <<inv.x[t][inv.dim[1] + 1]>>
                   /\ TextCalls[t].ys = <<inv.x[t][inv.dim[2] + 1]>>
        ELSE Len(TextCalls) = 0

=============================================================================
